---- MODULE Spec2Model ----
(***************************************************************************)
(* The assassin party game: the entity store (db.js) and the command       *)
(* handlers of the web server (server.js).                                 *)
(*                                                                         *)
(* The store is better-sqlite3, whose calls are synchronous, and the       *)
(* server is a single Node.js process: the store accesses of one handler   *)
(* all happen before the handler's first `await` (the SMS sends), so the   *)
(* store part of every handler is one atomic step.  Rows are kept in       *)
(* sequences, the AUTOINCREMENT id of a row being its index; NULL is 0.    *)
(*                                                                         *)
(* Spec has every handler as one step on the store.  SpecAsync adds the    *)
(* handlers suspended at their awaits and the sends they attempt.          *)
(* SpecSteps takes assignTargets and processKill one statement at a time,  *)
(* and SpecCrash lets the process stop between two statements.  SpecLive   *)
(* is one game with players and admin who keep playing (fairness).         *)
(***************************************************************************)
EXTENDS Naturals, Sequences, FiniteSets

\* ---------------------------------------------------------------- bounds
MaxGames == 2
MaxPlayers == 4
MaxTasks == 1
MaxReqs == 3

Null == 0

GameIds == 1..MaxGames
PlayerIds == 1..MaxPlayers
ReqIds == 1..MaxReqs

VARIABLES
  games,          \* table games: <<[status]>>
  tasks,          \* table tasks: <<[game_id]>>
  players,        \* table players: <<[game_id, target_id, is_alive, kills, current_task_id]>>
  kill_requests,  \* table kill_requests: <<[killer_id, victim_id, status]>>
  inflight,       \* the handlers suspended at an await, each with what it still holds
  running         \* the synchronous section a handler is inside, or Idle

\* the store
vars == <<games, tasks, players, kill_requests>>

\* the server process
process == <<inflight, running>>

allVars == <<games, tasks, players, kill_requests, inflight, running>>

\* what `running` holds: the section (op), the statement it is at (pc) and
\* the locals of the section
Section(op, pc, game, shuffled, i, killId, victimTarget) ==
  [op |-> op, pc |-> pc, game |-> game, shuffled |-> shuffled, i |-> i,
   killId |-> killId, victimTarget |-> victimTarget]

\* no handler is inside a synchronous section: the event loop takes the next
\* request
Idle == Section("idle", "", Null, <<>>, Null, Null, Null)

\* ---------------------------------------------------------------- db.js: rows and queries
NewGame == [status |-> "waiting"]

NewPlayer(gameId) ==
  [game_id |-> gameId, target_id |-> Null, is_alive |-> TRUE, kills |-> 0,
   current_task_id |-> Null]

NewKillRequest(killerId, victimId) ==
  [killer_id |-> killerId, victim_id |-> victimId, status |-> "pending"]

getGameByAdminToken(token) == IF token \in DOMAIN games THEN token ELSE Null

getGameById(id) == IF id \in DOMAIN games THEN id ELSE Null

getPlayerByToken(token) == IF token \in DOMAIN players THEN token ELSE Null

getKillRequestById(id) == IF id \in DOMAIN kill_requests THEN id ELSE Null

getTasksByGame(gameId) == {t \in DOMAIN tasks : tasks[t].game_id = gameId}

\* a getRandomTask that draws from the tasks of every game
getRandomTaskOfAnyGame(gameId) ==
  IF DOMAIN tasks = {} THEN {Null} ELSE DOMAIN tasks

\* the values Math.random() lets getRandomTask return
getRandomTask(gameId) ==
  IF getTasksByGame(gameId) = {} THEN {Null} ELSE getTasksByGame(gameId)

getPlayersByGame(P, gameId) == {p \in DOMAIN P : P[p].game_id = gameId}

\* the rows of getPlayersByGame as the array the query returns (in the order
\* the players were added)
playersArray(P, gameId) ==
  LET inGame(p) == P[p].game_id = gameId
  IN SelectSeq([p \in 1..Len(P) |-> p], inGame)

getAlivePlayers(P, gameId) ==
  {p \in DOMAIN P : P[p].game_id = gameId /\ P[p].is_alive}

\* ---------------------------------------------------------------- db.js: updates
updateGameStatus(G, id, status) == [G EXCEPT ![id].status = status]

setPlayerTask(P, playerId, taskId) == [P EXCEPT ![playerId].current_task_id = taskId]

setPlayerTarget(P, playerId, targetId) == [P EXCEPT ![playerId].target_id = targetId]

killPlayer(P, playerId) ==
  [P EXCEPT ![playerId].is_alive = FALSE, ![playerId].target_id = Null]

incrementKills(P, playerId) == [P EXCEPT ![playerId].kills = @ + 1]

\* UPDATE ... WHERE id = ?: no row, no change
updateKillRequestStatus(K, id, status) ==
  IF id \in DOMAIN K THEN [K EXCEPT ![id].status = status] ELSE K

\* a createKillRequest that never finds an existing request
noExistingKillRequest(killerId, victimId) == {}

\* a lookup that takes a request of the pair in any status for the existing
\* one
existingKillRequestOfAnyStatus(killerId, victimId) ==
  {r \in DOMAIN kill_requests :
     /\ kill_requests[r].killer_id = killerId
     /\ kill_requests[r].victim_id = victimId}

\* the pending request of this (killer, victim) pair, if any
existingKillRequest(killerId, victimId) ==
  {r \in DOMAIN kill_requests :
     /\ kill_requests[r].killer_id = killerId
     /\ kill_requests[r].victim_id = victimId
     /\ kill_requests[r].status = "pending"}

\* the id of the row createKillRequest returns: the existing pending one (the
\* first the SELECT finds), or the one it inserts
createKillRequestId(killerId, victimId) ==
  IF existingKillRequest(killerId, victimId) # {}
    THEN CHOOSE r \in existingKillRequest(killerId, victimId) :
           \A q \in existingKillRequest(killerId, victimId) : r <= q
    ELSE Len(kill_requests) + 1

createKillRequest(killerId, victimId) ==
  IF existingKillRequest(killerId, victimId) # {}
    THEN kill_requests
    ELSE Append(kill_requests, NewKillRequest(killerId, victimId))

\* ---------------------------------------------------------------- db.js: assignTargets
\* "[shuffled[i], shuffled[j]] = [shuffled[j], shuffled[i]]"
swap(shuffled, i, j) == [shuffled EXCEPT ![i] = shuffled[j], ![j] = shuffled[i]]

\* the Fisher-Yates loop from index i down: j is Math.floor(Math.random() *
\* (i + 1)), any index up to i (indices from 1 here)
RECURSIVE shuffleFrom(_, _)
shuffleFrom(shuffled, i) ==
  IF i <= 1
    THEN {shuffled}
    ELSE UNION {shuffleFrom(swap(shuffled, i, j), i - 1) : j \in 1..i}

\* a shuffle whose swap writes only one of the two cells
RECURSIVE copyFrom(_, _)
copyFrom(shuffled, i) ==
  IF i <= 1
    THEN {shuffled}
    ELSE UNION {copyFrom([shuffled EXCEPT ![i] = shuffled[j]], i - 1) : j \in 1..i}

shuffleArrayCopying(array) == copyFrom(array, Len(array))

\* the arrays shuffleArray(array) can return
shuffleArray(array) == shuffleFrom(array, Len(array))

\* the loop of assignTargets from index i on; task[i] is the task
\* getRandomTask drew in iteration i (Null: empty pool, no setPlayerTask)
RECURSIVE assignLoop(_, _, _, _)
assignLoop(P, shuffled, task, i) ==
  IF i > Len(shuffled)
    THEN P
    ELSE LET nextIndex == (i % Len(shuffled)) + 1
             P1 == setPlayerTarget(P, shuffled[i], shuffled[nextIndex])
             P2 == IF task[i] # Null THEN setPlayerTask(P1, shuffled[i], task[i]) ELSE P1
         IN assignLoop(P2, shuffled, task, i + 1)

\* the players table after assignTargets, shuffled being what shuffleArray
\* returned: "if (players.length < 2) return false"
assignTargets(P, shuffled, task) ==
  IF Len(shuffled) < 2 THEN P ELSE assignLoop(P, shuffled, task, 1)

\* ---------------------------------------------------------------- db.js: processKill
\* a processKill that looks the request up but not at its status
resolvableWhateverStatus(killRequestId) ==
  getKillRequestById(killRequestId) # Null

\* a processKill that refuses only the requests already confirmed
resolvableUnlessConfirmed(killRequestId) ==
  /\ getKillRequestById(killRequestId) # Null
  /\ kill_requests[killRequestId].status # "confirmed"

\* "if (!request || request.status !== 'pending') return null"
resolvable(killRequestId) ==
  /\ getKillRequestById(killRequestId) # Null
  /\ kill_requests[killRequestId].status = "pending"

\* a processKill that leaves the killer on the target they had
keptTarget(killer, victim) == killer.target_id

\* "Killer gets victim's target"
inheritedTarget(killer, victim) == victim.target_id

\* a game-over check that waits for nobody to be left
gameOverWhenNone(alive) == Cardinality(alive) = 0

\* "Check if game is over"
gameOver(alive) == Cardinality(alive) = 1

\* a processKill that also settles the other pending requests against the
\* victim
processKillSettlingOthers(killRequestId, newTask) ==
  LET request == kill_requests[killRequestId]
      killer == players[request.killer_id]
      victim == players[request.victim_id]
      P1 == setPlayerTarget(players, request.killer_id, inheritedTarget(killer, victim))
      P2 == IF newTask # Null THEN setPlayerTask(P1, request.killer_id, newTask) ELSE P1
      P3 == incrementKills(P2, request.killer_id)
      P4 == killPlayer(P3, request.victim_id)
      alive == getAlivePlayers(P4, killer.game_id)
  IN [kill_requests |->
        [r \in DOMAIN kill_requests |->
           IF r = killRequestId
             THEN [kill_requests[r] EXCEPT !.status = "confirmed"]
             ELSE IF /\ kill_requests[r].victim_id = request.victim_id
                     /\ kill_requests[r].status = "pending"
                    THEN [kill_requests[r] EXCEPT !.status = "rejected"]
                    ELSE kill_requests[r]],
      players |-> P4,
      games |-> IF gameOver(alive)
                  THEN updateGameStatus(games, killer.game_id, "finished")
                  ELSE games,
      newTarget |-> victim.target_id]

\* the tables after processKill(killRequestId) when it does not return null;
\* newTask is the task getRandomTask drew
processKill(killRequestId, newTask) ==
  LET request == kill_requests[killRequestId]
      killer == players[request.killer_id]
      victim == players[request.victim_id]
      P1 == setPlayerTarget(players, request.killer_id, inheritedTarget(killer, victim))
      P2 == IF newTask # Null THEN setPlayerTask(P1, request.killer_id, newTask) ELSE P1
      P3 == incrementKills(P2, request.killer_id)
      P4 == killPlayer(P3, request.victim_id)
      alive == getAlivePlayers(P4, killer.game_id)
  IN [kill_requests |-> updateKillRequestStatus(kill_requests, killRequestId, "confirmed"),
      players |-> P4,
      games |-> IF gameOver(alive)
                  THEN updateGameStatus(games, killer.game_id, "finished")
                  ELSE games,
      newTarget |-> victim.target_id]

\* confirmation handlers that send to the killer first
resolveNoticesKillerFirst(killId) ==
  IF resolvable(killId)
    THEN LET request == kill_requests[killId]
             newTarget == players[request.victim_id].target_id
         IN << IF newTarget # Null
                 THEN [kind |-> "newTarget", to |-> request.killer_id,
                       about |-> newTarget]
                 ELSE [kind |-> "winner", to |-> request.killer_id,
                       about |-> Null],
               [kind |-> "eliminated", to |-> request.victim_id,
                about |-> request.killer_id] >>
    ELSE <<>>

\* the messages the two confirmation handlers send after processKill, in
\* order: "if (result)" eliminated to the victim, then the new target or, when
\* there is none, the win to the killer; nothing when processKill returns
\* null.  A message has its kind, the player it goes to and the player it
\* names.
resolveNotices(killId) ==
  IF resolvable(killId)
    THEN LET request == kill_requests[killId]
             newTarget == players[request.victim_id].target_id
         IN << [kind |-> "eliminated", to |-> request.victim_id,
                about |-> request.killer_id],
               IF newTarget # Null
                 THEN [kind |-> "newTarget", to |-> request.killer_id,
                       about |-> newTarget]
                 ELSE [kind |-> "winner", to |-> request.killer_id,
                       about |-> Null] >>
    ELSE <<>>

\* ---------------------------------------------------------------- server.js: handlers
Init ==
  /\ games = <<>>
  /\ tasks = <<>>
  /\ players = <<>>
  /\ kill_requests = <<>>
  /\ inflight = {}
  /\ running = Idle

\* POST /create-game: a game and one task per non-empty line
CreateGame(n) ==
  /\ Len(games) < MaxGames
  /\ Len(tasks) + n <= MaxTasks
  /\ games' = Append(games, NewGame)
  /\ tasks' = tasks \o [i \in 1..n |-> [game_id |-> Len(games) + 1]]
  /\ UNCHANGED <<players, kill_requests>>

\* a join handler that does not look at the game's status
JoinWhateverStatus(gameId) ==
  /\ Len(players) < MaxPlayers
  /\ LET game == getGameById(gameId) IN
       IF game = Null
         THEN UNCHANGED vars
         ELSE /\ players' = Append(players, NewPlayer(game))
              /\ UNCHANGED <<games, tasks, kill_requests>>

\* POST /join/:gameId
Join(gameId) ==
  /\ Len(players) < MaxPlayers
  /\ LET game == getGameById(gameId) IN
       IF game = Null \/ games[game].status # "waiting"
         THEN UNCHANGED vars
         ELSE /\ players' = Append(players, NewPlayer(game))
              /\ UNCHANGED <<games, tasks, kill_requests>>

\* a start handler that does not look at the game's status
StartWhateverStatus(token) ==
  LET game == getGameByAdminToken(token) IN
    IF \/ game = Null
       \/ Cardinality(getPlayersByGame(players, game)) < 2
      THEN UNCHANGED vars
      ELSE /\ \E shuffled \in shuffleArray(playersArray(players, game)) :
              \E task \in [DOMAIN shuffled -> getRandomTask(game)] :
                 players' = assignTargets(players, shuffled, task)
           /\ games' = updateGameStatus(games, game, "active")
           /\ UNCHANGED <<tasks, kill_requests>>

\* a start handler that does not count the players
StartAnyCount(token) ==
  LET game == getGameByAdminToken(token) IN
    IF \/ game = Null
       \/ games[game].status # "waiting"
      THEN UNCHANGED vars
      ELSE /\ \E shuffled \in shuffleArray(playersArray(players, game)) :
              \E task \in [DOMAIN shuffled -> getRandomTask(game)] :
                 players' = assignTargets(players, shuffled, task)
           /\ games' = updateGameStatus(games, game, "active")
           /\ UNCHANGED <<tasks, kill_requests>>

\* POST /admin/:token/start
Start(token) ==
  LET game == getGameByAdminToken(token) IN
    IF \/ game = Null
       \/ games[game].status # "waiting"
       \/ Cardinality(getPlayersByGame(players, game)) < 2
      THEN UNCHANGED vars
      ELSE /\ \E shuffled \in shuffleArray(playersArray(players, game)) :
              \E task \in [DOMAIN shuffled -> getRandomTask(game)] :
                 players' = assignTargets(players, shuffled, task)
           /\ games' = updateGameStatus(games, game, "active")
           /\ UNCHANGED <<tasks, kill_requests>>

\* a kill handler that does not look at the game's status
KillWhateverStatus(token) ==
  LET player == getPlayerByToken(token) IN
    IF \/ player = Null
       \/ ~players[player].is_alive
       \/ players[player].target_id = Null
      THEN UNCHANGED vars
      ELSE /\ \/ existingKillRequest(player, players[player].target_id) # {}
              \/ Len(kill_requests) < MaxReqs
           /\ kill_requests' = createKillRequest(player, players[player].target_id)
           /\ UNCHANGED <<games, tasks, players>>

\* a kill handler that counts the kill when it is submitted
KillCountedAtOnce(token) ==
  LET player == getPlayerByToken(token) IN
    IF \/ player = Null
       \/ ~players[player].is_alive
       \/ players[player].target_id = Null
       \/ games[players[player].game_id].status # "active"
      THEN UNCHANGED vars
      ELSE /\ \/ existingKillRequest(player, players[player].target_id) # {}
              \/ Len(kill_requests) < MaxReqs
           /\ kill_requests' = createKillRequest(player, players[player].target_id)
           /\ players' = incrementKills(players, player)
           /\ UNCHANGED <<games, tasks>>

\* POST /play/:token/kill
Kill(token) ==
  LET player == getPlayerByToken(token) IN
    IF \/ player = Null
       \/ ~players[player].is_alive
       \/ players[player].target_id = Null
       \/ games[players[player].game_id].status # "active"
      THEN UNCHANGED vars
      ELSE /\ \/ existingKillRequest(player, players[player].target_id) # {}
              \/ Len(kill_requests) < MaxReqs
           /\ kill_requests' = createKillRequest(player, players[player].target_id)
           /\ UNCHANGED <<games, tasks, players>>

\* the store part the two confirmation handlers share: processKill, or its
\* null result
Resolve(killId) ==
  IF resolvable(killId)
    THEN \E newTask \in getRandomTask(players[kill_requests[killId].killer_id].game_id) :
           LET result == processKill(killId, newTask) IN
             /\ kill_requests' = result.kill_requests
             /\ players' = result.players
             /\ games' = result.games
             /\ UNCHANGED tasks
    ELSE UNCHANGED vars

\* a confirm-death handler that does not compare the caller with the victim
ConfirmDeathByAnyone(token, killId) ==
  LET player == getPlayerByToken(token)
      killRequest == getKillRequestById(killId)
  IN IF \/ player = Null
        \/ killRequest = Null
        \/ kill_requests[killRequest].status # "pending"
       THEN UNCHANGED vars
       ELSE Resolve(killId)

\* POST /play/:token/confirm-death/:killId
ConfirmDeath(token, killId) ==
  LET player == getPlayerByToken(token)
      killRequest == getKillRequestById(killId)
  IN IF \/ player = Null
        \/ killRequest = Null
        \/ kill_requests[killRequest].victim_id # player
        \/ kill_requests[killRequest].status # "pending"
       THEN UNCHANGED vars
       ELSE Resolve(killId)

\* POST /admin/:token/approve/:killId
Approve(token, killId) ==
  IF getGameByAdminToken(token) = Null
    THEN UNCHANGED vars
    ELSE Resolve(killId)

\* a reject handler that hands the request to processKill as approve does
RejectByResolving(token, killId) ==
  IF getGameByAdminToken(token) = Null
    THEN UNCHANGED vars
    ELSE Resolve(killId)

\* POST /admin/:token/reject/:killId
Reject(token, killId) ==
  IF getGameByAdminToken(token) = Null
    THEN UNCHANGED vars
    ELSE /\ kill_requests' = updateKillRequestStatus(kill_requests, killId, "rejected")
         /\ UNCHANGED <<games, tasks, players>>

\* every handler as one step on the store
Next ==
  \/ \E n \in 0..MaxTasks : CreateGame(n) /\ UNCHANGED process
  \/ \E gameId \in GameIds : Join(gameId) /\ UNCHANGED process
  \/ \E token \in GameIds : Start(token) /\ UNCHANGED process
  \/ \E token \in PlayerIds : Kill(token) /\ UNCHANGED process
  \/ \E token \in PlayerIds, killId \in ReqIds :
        ConfirmDeath(token, killId) /\ UNCHANGED process
  \/ \E token \in GameIds, killId \in ReqIds :
        Approve(token, killId) /\ UNCHANGED process
  \/ \E token \in GameIds, killId \in ReqIds :
        Reject(token, killId) /\ UNCHANGED process

Spec == Init /\ [][Next]_vars

\* ---------------------------------------------------------------- server.js: handlers and their awaits
\* The async handlers suspend at every `await sms.send...`: the store part
\* and the first send happen in the step the command arrives in, every
\* further send in a step of its own once the send before it has ended, and
\* other commands run in between.  This specification has bounds of its own.
SmallGames == 1
SmallPlayers == 3
SmallTasks == 2
SmallReqs == 2
MaxInflight == 2

\* one SMS: its kind, the player it goes to, the player it names, the task
\* it names
Notice(kind, to, about, task) ==
  [kind |-> kind, to |-> to, about |-> about, task |-> task]

\* a handler suspended at an await: the send it awaits, the sends still to
\* come and, in the start loop, the current_task_id of the loop's player row
Suspended(kind, awaiting, rest, built) ==
  [kind |-> kind, awaiting |-> awaiting, rest |-> rest, built |-> built]

\* getPlayerTask(playerId): the task the player's row points to now
getPlayerTask(P, playerId) == P[playerId].current_task_id

\* "for (const player of updatedPlayers)": the rows the start handler read
\* after build, as the sends they lead to
updatedPlayers(P, game) ==
  LET array == playersArray(P, game)
  IN [i \in DOMAIN array |->
        Notice("gameStart", array[i], P[array[i]].target_id, P[array[i]].current_task_id)]

\* one iteration of the start loop on the row `player`: the task is read from
\* the store, the target is the one of the row
startIteration(P, player, rest) ==
  Suspended("start",
            Notice("gameStart", player.to, player.about, getPlayerTask(P, player.to)),
            rest, player.task)

\* the sends of "if (result)" with the task processKill drew
resultNotices(killId, newTask) ==
  LET notices == resolveNotices(killId)
  IN [i \in DOMAIN notices |->
        Notice(notices[i].kind, notices[i].to, notices[i].about,
               IF notices[i].kind = "newTarget" THEN newTask ELSE Null)]

AsyncCreateGame(n) ==
  /\ Len(games) < SmallGames
  /\ Len(tasks) + n <= SmallTasks
  /\ games' = Append(games, NewGame)
  /\ tasks' = tasks \o [i \in 1..n |-> [game_id |-> Len(games) + 1]]
  /\ UNCHANGED <<players, kill_requests, process>>

AsyncJoin(gameId) ==
  /\ Len(players) < SmallPlayers
  /\ Join(gameId)
  /\ UNCHANGED process

\* a start handler that does not look at the game's status
AsyncStartWhateverStatus(token) ==
  LET game == getGameByAdminToken(token) IN
    IF \/ game = Null
       \/ Cardinality(getPlayersByGame(players, game)) < 2
      THEN UNCHANGED allVars
      ELSE /\ Cardinality(inflight) < MaxInflight
           /\ \E shuffled \in shuffleArray(playersArray(players, game)) :
              \E task \in [DOMAIN shuffled -> getRandomTask(game)] :
                 players' = assignTargets(players, shuffled, task)
           /\ games' = updateGameStatus(games, game, "active")
           /\ LET rows == updatedPlayers(players', game)
              IN inflight' = inflight \cup {startIteration(players', Head(rows), Tail(rows))}
           /\ UNCHANGED <<tasks, kill_requests, running>>

\* POST /admin/:token/start up to its first await
AsyncStart(token) ==
  LET game == getGameByAdminToken(token) IN
    IF \/ game = Null
       \/ games[game].status # "waiting"
       \/ Cardinality(getPlayersByGame(players, game)) < 2
      THEN UNCHANGED allVars
      ELSE /\ Cardinality(inflight) < MaxInflight
           /\ \E shuffled \in shuffleArray(playersArray(players, game)) :
              \E task \in [DOMAIN shuffled -> getRandomTask(game)] :
                 players' = assignTargets(players, shuffled, task)
           /\ games' = updateGameStatus(games, game, "active")
           /\ LET rows == updatedPlayers(players', game)
              IN inflight' = inflight \cup {startIteration(players', Head(rows), Tail(rows))}
           /\ UNCHANGED <<tasks, kill_requests, running>>

\* POST /play/:token/kill up to its await
AsyncKill(token) ==
  LET player == getPlayerByToken(token) IN
    IF \/ player = Null
       \/ ~players[player].is_alive
       \/ players[player].target_id = Null
       \/ games[players[player].game_id].status # "active"
      THEN UNCHANGED allVars
      ELSE /\ Cardinality(inflight) < MaxInflight
           /\ \/ existingKillRequest(player, players[player].target_id) # {}
              \/ Len(kill_requests) < SmallReqs
           /\ kill_requests' = createKillRequest(player, players[player].target_id)
           /\ inflight' = inflight \cup
                {Suspended("kill",
                           Notice("killRequest", players[player].target_id, player, Null),
                           <<>>, Null)}
           /\ UNCHANGED <<games, tasks, players, running>>

\* processKill and "if (result)" up to the first await; with a null result
\* the handler sends nothing and ends
AsyncResolve(killId) ==
  IF resolvable(killId)
    THEN /\ Cardinality(inflight) < MaxInflight
         /\ \E newTask \in getRandomTask(players[kill_requests[killId].killer_id].game_id) :
              LET result == processKill(killId, newTask)
                  notices == resultNotices(killId, newTask)
              IN /\ kill_requests' = result.kill_requests
                 /\ players' = result.players
                 /\ games' = result.games
                 /\ inflight' = inflight \cup
                      {Suspended("resolve", Head(notices), Tail(notices), Null)}
         /\ UNCHANGED <<tasks, running>>
    ELSE UNCHANGED allVars

AsyncConfirmDeath(token, killId) ==
  LET player == getPlayerByToken(token)
      killRequest == getKillRequestById(killId)
  IN IF \/ player = Null
        \/ killRequest = Null
        \/ kill_requests[killRequest].victim_id # player
        \/ kill_requests[killRequest].status # "pending"
       THEN UNCHANGED allVars
       ELSE AsyncResolve(killId)

AsyncApprove(token, killId) ==
  IF getGameByAdminToken(token) = Null
    THEN UNCHANGED allVars
    ELSE AsyncResolve(killId)

AsyncReject(token, killId) ==
  /\ Reject(token, killId)
  /\ UNCHANGED process

\* a resume that undoes the handler's kill request when the send has failed
ResumeRollingBack(h, ok) ==
  /\ h \in inflight
  /\ inflight' = inflight \ {h}
  /\ kill_requests' =
       IF ok THEN kill_requests
       ELSE [r \in DOMAIN kill_requests |->
               IF /\ kill_requests[r].victim_id = h.awaiting.to
                  /\ kill_requests[r].killer_id = h.awaiting.about
                 THEN [kill_requests[r] EXCEPT !.status = "rejected"]
                 ELSE kill_requests[r]]
  /\ UNCHANGED <<games, tasks, players, running>>

\* the awaited send of h has ended, delivered (ok) or not: sendSMS returns
\* true or false and never throws, and no handler looks at what it returns.
\* The handler goes on to its next send, or responds.
Resume(h, ok) ==
  /\ h \in inflight
  /\ inflight' =
       IF h.rest = <<>>
         THEN inflight \ {h}
         ELSE (inflight \ {h}) \cup
                {IF h.kind = "start"
                   THEN startIteration(players, Head(h.rest), Tail(h.rest))
                   ELSE Suspended(h.kind, Head(h.rest), Tail(h.rest), Null)}
  /\ UNCHANGED <<vars, running>>

NextAsync ==
  \/ \E n \in 0..SmallTasks : AsyncCreateGame(n)
  \/ \E gameId \in 1..SmallGames : AsyncJoin(gameId)
  \/ \E token \in 1..SmallGames : AsyncStart(token)
  \/ \E token \in 1..SmallPlayers : AsyncKill(token)
  \/ \E token \in 1..SmallPlayers, killId \in 1..SmallReqs : AsyncConfirmDeath(token, killId)
  \/ \E token \in 1..SmallGames, killId \in 1..SmallReqs : AsyncApprove(token, killId)
  \/ \E token \in 1..SmallGames, killId \in 1..SmallReqs : AsyncReject(token, killId)
  \/ \E h \in inflight, ok \in BOOLEAN : Resume(h, ok)

SpecAsync == Init /\ [][NextAsync]_allVars

\* ---------------------------------------------------------------- db.js: one statement at a time
\* Every db call is one statement that better-sqlite3 commits on its own: no
\* handler opens a transaction.  Here assignTargets and processKill, the two
\* sections with several writes, take one step per write; the handlers with
\* one write stay one step.  A section runs to its end before the event loop
\* takes another request, as nothing in it awaits.
StepCreateGame(n) ==
  /\ running = Idle
  /\ AsyncCreateGame(n)

StepJoin(gameId) ==
  /\ running = Idle
  /\ AsyncJoin(gameId)

StepKill(token) ==
  /\ running = Idle
  /\ Kill(token)
  /\ Len(kill_requests') <= SmallReqs
  /\ UNCHANGED process

StepReject(token, killId) ==
  /\ running = Idle
  /\ AsyncReject(token, killId)

\* POST /admin/:token/start up to "const shuffled = shuffleArray(players)"
BeginStart(token) ==
  /\ running = Idle
  /\ LET game == getGameByAdminToken(token) IN
       IF \/ game = Null
          \/ games[game].status # "waiting"
          \/ Cardinality(getPlayersByGame(players, game)) < 2
         THEN UNCHANGED allVars
         ELSE /\ \E shuffled \in shuffleArray(playersArray(players, game)) :
                   running' = Section("start", "target", game, shuffled, 1, Null, Null)
              /\ UNCHANGED <<vars, inflight>>

\* "setPlayerTarget(shuffled[i].id, shuffled[nextIndex].id)"
StartSetTarget ==
  /\ running.op = "start" /\ running.pc = "target"
  /\ players' = setPlayerTarget(players, running.shuffled[running.i],
                                running.shuffled[(running.i % Len(running.shuffled)) + 1])
  /\ running' = [running EXCEPT !.pc = "task"]
  /\ UNCHANGED <<games, tasks, kill_requests, inflight>>

\* "const task = getRandomTask(gameId); if (task) setPlayerTask(...)", and the
\* loop's "i++"
StartSetTask ==
  /\ running.op = "start" /\ running.pc = "task"
  /\ \E task \in getRandomTask(running.game) :
       players' = IF task # Null
                    THEN setPlayerTask(players, running.shuffled[running.i], task)
                    ELSE players
  /\ running' = IF running.i < Len(running.shuffled)
                  THEN [running EXCEPT !.pc = "target", !.i = @ + 1]
                  ELSE [running EXCEPT !.pc = "status"]
  /\ UNCHANGED <<games, tasks, kill_requests, inflight>>

\* "db.updateGameStatus(game.id, 'active')"; the sends that follow write
\* nothing
StartSetStatus ==
  /\ running.op = "start" /\ running.pc = "status"
  /\ games' = updateGameStatus(games, running.game, "active")
  /\ running' = Idle
  /\ UNCHANGED <<tasks, players, kill_requests, inflight>>

\* processKill up to "if (!killer || !victim) return null"
BeginResolve(killId) ==
  IF resolvable(killId)
    THEN /\ running' = Section("processKill", "status",
                               players[kill_requests[killId].killer_id].game_id, <<>>, Null,
                               killId, players[kill_requests[killId].victim_id].target_id)
         /\ UNCHANGED <<vars, inflight>>
    ELSE UNCHANGED allVars

BeginConfirmDeath(token, killId) ==
  /\ running = Idle
  /\ LET player == getPlayerByToken(token)
         killRequest == getKillRequestById(killId)
     IN IF \/ player = Null
           \/ killRequest = Null
           \/ kill_requests[killRequest].victim_id # player
           \/ kill_requests[killRequest].status # "pending"
          THEN UNCHANGED allVars
          ELSE BeginResolve(killId)

BeginApprove(token, killId) ==
  /\ running = Idle
  /\ IF getGameByAdminToken(token) = Null
       THEN UNCHANGED allVars
       ELSE BeginResolve(killId)

\* a processKill that returns after its first write
ResolveSetStatusOnly ==
  /\ running.op = "processKill" /\ running.pc = "status"
  /\ kill_requests' = updateKillRequestStatus(kill_requests, running.killId, "confirmed")
  /\ running' = Idle
  /\ UNCHANGED <<games, tasks, players, inflight>>

\* "updateKillRequestStatus(killRequestId, 'confirmed')"
ResolveSetStatus ==
  /\ running.op = "processKill" /\ running.pc = "status"
  /\ kill_requests' = updateKillRequestStatus(kill_requests, running.killId, "confirmed")
  /\ running' = [running EXCEPT !.pc = "target"]
  /\ UNCHANGED <<games, tasks, players, inflight>>

\* "setPlayerTarget(killer.id, victim.target_id)"
ResolveSetTarget ==
  /\ running.op = "processKill" /\ running.pc = "target"
  /\ players' = setPlayerTarget(players, kill_requests[running.killId].killer_id,
                                running.victimTarget)
  /\ running' = [running EXCEPT !.pc = "task"]
  /\ UNCHANGED <<games, tasks, kill_requests, inflight>>

\* "const newTask = getRandomTask(killer.game_id); if (newTask) setPlayerTask(...)"
ResolveSetTask ==
  /\ running.op = "processKill" /\ running.pc = "task"
  /\ \E newTask \in getRandomTask(running.game) :
       players' = IF newTask # Null
                    THEN setPlayerTask(players, kill_requests[running.killId].killer_id, newTask)
                    ELSE players
  /\ running' = [running EXCEPT !.pc = "kills"]
  /\ UNCHANGED <<games, tasks, kill_requests, inflight>>

\* "incrementKills(killer.id)"
ResolveIncrementKills ==
  /\ running.op = "processKill" /\ running.pc = "kills"
  /\ players' = incrementKills(players, kill_requests[running.killId].killer_id)
  /\ running' = [running EXCEPT !.pc = "dead"]
  /\ UNCHANGED <<games, tasks, kill_requests, inflight>>

\* "killPlayer(victim.id)"
ResolveKillPlayer ==
  /\ running.op = "processKill" /\ running.pc = "dead"
  /\ players' = killPlayer(players, kill_requests[running.killId].victim_id)
  /\ running' = [running EXCEPT !.pc = "over"]
  /\ UNCHANGED <<games, tasks, kill_requests, inflight>>

\* "if (alive.length === 1) updateGameStatus(killer.game_id, 'finished')"; the
\* sends that follow write nothing
ResolveGameOver ==
  /\ running.op = "processKill" /\ running.pc = "over"
  /\ games' = IF gameOver(getAlivePlayers(players, running.game))
                THEN updateGameStatus(games, running.game, "finished")
                ELSE games
  /\ running' = Idle
  /\ UNCHANGED <<tasks, players, kill_requests, inflight>>

NextSteps ==
  \/ \E n \in 0..SmallTasks : StepCreateGame(n)
  \/ \E gameId \in 1..SmallGames : StepJoin(gameId)
  \/ \E token \in 1..SmallPlayers : StepKill(token)
  \/ \E token \in 1..SmallGames, killId \in 1..SmallReqs : StepReject(token, killId)
  \/ \E token \in 1..SmallGames : BeginStart(token)
  \/ StartSetTarget
  \/ StartSetTask
  \/ StartSetStatus
  \/ \E token \in 1..SmallPlayers, killId \in 1..SmallReqs : BeginConfirmDeath(token, killId)
  \/ \E token \in 1..SmallGames, killId \in 1..SmallReqs : BeginApprove(token, killId)
  \/ ResolveSetStatus
  \/ ResolveSetTarget
  \/ ResolveSetTask
  \/ ResolveIncrementKills
  \/ ResolveKillPlayer
  \/ ResolveGameOver

SpecSteps == Init /\ [][NextSteps]_allVars

\* the process stops inside a section (killed, out of memory, power): what
\* the statements before have written stays in the database file, the rest
\* of the section never runs, and the restarted server is at its event loop
Crash ==
  /\ running # Idle
  /\ running' = Idle
  /\ UNCHANGED <<vars, inflight>>

NextCrash ==
  \/ NextSteps
  \/ Crash

SpecCrash == Init /\ [][NextCrash]_allVars

\* ---------------------------------------------------------------- server.js: a game played to its end
\* The handlers of Spec on one game, with room in kill_requests for every
\* request the players of one game submit when no pending request is
\* rejected (at most four with three players), so that the bound refuses no
\* submit.  One task is enough to have players with and without a task.
LiveReqs == 5
LiveTasks == 1

LiveStart(token) ==
  /\ Start(token)
  /\ UNCHANGED process

\* POST /play/:token/kill
LiveKill(token) ==
  LET player == getPlayerByToken(token) IN
    IF \/ player = Null
       \/ ~players[player].is_alive
       \/ players[player].target_id = Null
       \/ games[players[player].game_id].status # "active"
      THEN UNCHANGED allVars
      ELSE /\ \/ existingKillRequest(player, players[player].target_id) # {}
              \/ Len(kill_requests) < LiveReqs
           /\ kill_requests' = createKillRequest(player, players[player].target_id)
           /\ UNCHANGED <<games, tasks, players, process>>

LiveConfirmDeath(token, killId) ==
  /\ ConfirmDeath(token, killId)
  /\ UNCHANGED process

LiveApprove(token, killId) ==
  /\ Approve(token, killId)
  /\ UNCHANGED process

\* the admin rejects no request that is pending: every pending request is to
\* be confirmed
LiveReject(token, killId) ==
  /\ killId \in DOMAIN kill_requests
  /\ kill_requests[killId].status # "pending"
  /\ Reject(token, killId)
  /\ UNCHANGED process

NextLive ==
  \/ \E n \in 0..LiveTasks : AsyncCreateGame(n)
  \/ \E gameId \in 1..SmallGames : AsyncJoin(gameId)
  \/ \E token \in 1..SmallGames : LiveStart(token)
  \/ \E token \in 1..SmallPlayers : LiveKill(token)
  \/ \E token \in 1..SmallPlayers, killId \in 1..LiveReqs : LiveConfirmDeath(token, killId)
  \/ \E token \in 1..SmallGames, killId \in 1..LiveReqs : LiveApprove(token, killId)
  \/ \E token \in 1..SmallGames, killId \in 1..LiveReqs : LiveReject(token, killId)

\* request killId is confirmed by its victim or approved by the admin
LiveConfirm(killId) ==
  \/ \E token \in 1..SmallPlayers : LiveConfirmDeath(token, killId)
  \/ \E token \in 1..SmallGames : LiveApprove(token, killId)

\* the players and the admin keep playing: a player who can submit a claim
\* does so in the end, and a pending request is confirmed in the end
KeepPlaying ==
  /\ \A token \in 1..SmallPlayers : WF_allVars(LiveKill(token))
  /\ \A killId \in 1..LiveReqs : WF_allVars(LiveConfirm(killId))

SpecLive == Init /\ [][NextLive]_allVars /\ KeepPlaying

\* ---------------------------------------------------------------- vocabulary of the properties
Started(g) == games[g].status \in {"active", "finished"}

Alive(g) == getAlivePlayers(players, g)

\* the players reached from S in at most k target hops (S included)
RECURSIVE follow(_, _, _)
follow(P, S, k) ==
  IF k = 0 THEN S ELSE follow(P, S \cup {P[q].target_id : q \in S}, k - 1)

\* in table P the target relation on the set A is one directed cycle through
\* all of A: targets stay in A, nobody targets themselves, and the players
\* reached from anyone are all of A
IsRing(P, A) ==
  /\ \A p \in A : P[p].target_id \in A /\ P[p].target_id # p
  /\ \A p \in A : follow(P, {P[p].target_id}, Cardinality(A)) = A

ConfirmedBy(p) ==
  {r \in DOMAIN kill_requests :
     kill_requests[r].killer_id = p /\ kill_requests[r].status = "confirmed"}

ResolvedBy(p) ==
  {r \in DOMAIN kill_requests :
     kill_requests[r].killer_id = p /\ kill_requests[r].status # "pending"}

\* request r goes from pending to confirmed in this step
Confirms(r) ==
  /\ kill_requests[r].status = "pending"
  /\ kill_requests'[r].status = "confirmed"

\* ---------------------------------------------------------------- C1
\* C1: in every reachable state in which a game is active, the target
\* relation on the living players of that game is exactly one directed cycle
\* covering all of them.
C1_RingInvariant ==
  \A g \in DOMAIN games : games[g].status = "active" => IsRing(players, Alive(g))

\* ---------------------------------------------------------------- C2
\* a confirm-by-victim or an admin approve attempt on request killId
C2_Attempt(killId) ==
  \/ \E token \in PlayerIds : ConfirmDeath(token, killId)
  \/ \E token \in GameIds : Approve(token, killId)

\* the elimination of request killId is performed, once, in this step
C2_Eliminates(killId) ==
  LET request == kill_requests[killId] IN
    /\ kill_requests'[killId].status = "confirmed"
    /\ players'[request.killer_id].kills = players[request.killer_id].kills + 1
    /\ ~players'[request.victim_id].is_alive
    /\ \A p \in DOMAIN players :
         p # request.killer_id => players'[p].kills = players[p].kills

\* C2: race safety of confirmation.  Every confirm-by-victim or admin approve
\* attempt on a request either finds it pending and performs its elimination
\* (status confirmed, the killer's kills + 1, the victim dead) or changes
\* nothing; a request that has left pending never returns to it, so of any
\* two attempts on one request one eliminates and the other is a no-op; and
\* no killer ever has more kills than requests of theirs that left pending.
C2_RaceSafety ==
  /\ [][\A killId \in ReqIds :
          C2_Attempt(killId) =>
            /\ killId \in DOMAIN kill_requests
            /\ kill_requests[killId].status = "pending"
            /\ C2_Eliminates(killId)]_vars
  /\ [][\A r \in DOMAIN kill_requests :
          kill_requests[r].status # "pending" => kill_requests'[r].status # "pending"]_vars
  /\ [](\A p \in DOMAIN players : players[p].kills <= Cardinality(ResolvedBy(p)))

\* a request has been eliminated (confirmed, its killer at one kill for the
\* one request of theirs that left pending, its victim dead) and from here no
\* attempt of the victim or the admin on it changes anything
C2_Raced ==
  \E r \in DOMAIN kill_requests :
    /\ kill_requests[r].status = "confirmed"
    /\ players[kill_requests[r].killer_id].kills = 1
    /\ ResolvedBy(kill_requests[r].killer_id) = {r}
    /\ ~players[kill_requests[r].victim_id].is_alive
    /\ ~ENABLED (C2_Attempt(r) /\ ~UNCHANGED vars)

\* ---------------------------------------------------------------- C3
\* C3: once a kill request is confirmed or rejected its status never changes
\* again, under any later command.
C3_TerminalStatus ==
  [][\A r \in DOMAIN kill_requests :
       kill_requests[r].status # "pending" =>
         kill_requests'[r].status = kill_requests[r].status]_vars

\* ---------------------------------------------------------------- C4
\* C4: each player's kills counter equals the number of confirmed kill
\* requests whose killer is that player.
C4_KillsMatchConfirmed ==
  \A p \in DOMAIN players : players[p].kills = Cardinality(ConfirmedBy(p))

\* ---------------------------------------------------------------- C5
\* C5: every player who is not alive has a null target.
C5_DeadHaveNoTarget ==
  \A p \in DOMAIN players : ~players[p].is_alive => players[p].target_id = Null

\* ---------------------------------------------------------------- C6
\* C6: a command issued with the token of an eliminated player (submitting a
\* kill, confirming a request) changes no game, player or kill-request state.
C6_DeadPlayersIgnored ==
  [][\A token \in DOMAIN players :
       (/\ ~players[token].is_alive
        /\ \/ Kill(token)
           \/ \E killId \in ReqIds : ConfirmDeath(token, killId))
       => UNCHANGED <<games, players, kill_requests>>]_vars

\* ---------------------------------------------------------------- C7
\* C7: a started game is finished if and only if exactly one of its players
\* is alive.
C7_FinishedIffOneAlive ==
  \A g \in DOMAIN games :
    Started(g) => (games[g].status = "finished" <=> Cardinality(Alive(g)) = 1)

\* ---------------------------------------------------------------- C8
\* C8: a started game always has at least one living player.
C8_SomeoneAlive ==
  \A g \in DOMAIN games : Started(g) => Alive(g) # {}

\* ---------------------------------------------------------------- C9
\* C9: win detection.  When the living players are a ring of exactly two,
\* A -> B -> A, confirming A's request on B leaves A with a null target, B
\* dead and the game finished.
C9_WinDetection ==
  [][\A r \in DOMAIN kill_requests :
       LET A == kill_requests[r].killer_id
           B == kill_requests[r].victim_id
           g == players[A].game_id
       IN (/\ Confirms(r)
           /\ A # B
           /\ Alive(g) = {A, B}
           /\ players[A].target_id = B
           /\ players[B].target_id = A)
          => /\ players'[A].target_id = Null
             /\ ~players'[B].is_alive
             /\ games'[g].status = "finished"]_vars

\* ---------------------------------------------------------------- C10
\* C10: rewire correctness.  When a pending request (K, V) is confirmed while
\* the living players are a ring of n >= 3 with K in it and K.target = V: K's
\* target becomes V's former target, V is dead with a null target, K's kills
\* grow by exactly 1, every other player keeps target, is_alive and kills, and
\* the living players are a ring of n - 1.
C10_Rewire ==
  [][\A r \in DOMAIN kill_requests :
       LET K == kill_requests[r].killer_id
           V == kill_requests[r].victim_id
           g == players[K].game_id
       IN (/\ Confirms(r)
           /\ K \in Alive(g)
           /\ Cardinality(Alive(g)) >= 3
           /\ IsRing(players, Alive(g))
           /\ players[K].target_id = V)
          => /\ players'[K].target_id = players[V].target_id
             /\ ~players'[V].is_alive
             /\ players'[V].target_id = Null
             /\ players'[K].kills = players[K].kills + 1
             /\ \A p \in DOMAIN players \ {K, V} :
                  /\ players'[p].target_id = players[p].target_id
                  /\ players'[p].is_alive = players[p].is_alive
                  /\ players'[p].kills = players[p].kills
             /\ getAlivePlayers(players', g) = Alive(g) \ {V}
             /\ IsRing(players', Alive(g) \ {V})]_vars

\* a confirmed request (K, V) in a game of at least three players: V is dead
\* with a null target, K has the one kill, and the other players, K among
\* them, are alive in a ring in a game still active
C10_Rewired ==
  \E r \in DOMAIN kill_requests :
    LET K == kill_requests[r].killer_id
        V == kill_requests[r].victim_id
        g == players[K].game_id
    IN /\ kill_requests[r].status = "confirmed"
       /\ games[g].status = "active"
       /\ Alive(g) = getPlayersByGame(players, g) \ {V}
       /\ Cardinality(Alive(g)) >= 3
       /\ players[V].target_id = Null
       /\ players[K].kills = 1
       /\ IsRing(players, Alive(g))

\* ---------------------------------------------------------------- C11
\* the player reached from p after exactly k target hops
RECURSIVE hop(_, _, _)
hop(P, p, k) == IF k = 0 THEN p ELSE hop(P, P[p].target_id, k - 1)

\* game g goes from waiting to active in this step
Starts(g) ==
  /\ games[g].status = "waiting"
  /\ games'[g].status = "active"

\* C11: after build, for every order the shuffle may produce, the targets of
\* the n >= 2 players of the game are one cycle of length n: every player has
\* a target, another player of the game (themselves never), is the target of
\* exactly one player, and following targets returns to the player after
\* exactly n hops and not fewer.
C11_BuildOneCycle ==
  [][\A g \in DOMAIN games :
       Starts(g) =>
         LET S == getPlayersByGame(players, g)
             n == Cardinality(S)
         IN /\ n >= 2
            /\ getPlayersByGame(players', g) = S
            /\ \A p \in S : players'[p].target_id \in S \ {p}
            /\ \A p \in S : Cardinality({q \in S : players'[q].target_id = p}) = 1
            /\ \A p \in S :
                 /\ hop(players', p, n) = p
                 /\ \A k \in 1..(n - 1) : hop(players', p, k) # p
            /\ IsRing(players', S)]_vars

\* a game of at least three players right after build: active, no request
\* yet, everyone alive and in the one ring
C11_Built ==
  \E g \in DOMAIN games :
    /\ games[g].status = "active"
    /\ kill_requests = <<>>
    /\ Cardinality(getPlayersByGame(players, g)) >= 3
    /\ Alive(g) = getPlayersByGame(players, g)
    /\ IsRing(players, Alive(g))

\* ---------------------------------------------------------------- C12
\* the pending requests of the pair (k, v)
PendingOf(k, v) ==
  {r \in DOMAIN kill_requests :
     /\ kill_requests[r].killer_id = k
     /\ kill_requests[r].victim_id = v
     /\ kill_requests[r].status = "pending"}

\* C12: submit is idempotent.  There is at most one pending request per
\* (killer, victim) pair; while one is pending, createKillRequest for the
\* pair returns that request's identity, and a submit by its killer adds no
\* record.
C12_SubmitIdempotent ==
  /\ [](\A r \in DOMAIN kill_requests :
          LET k == kill_requests[r].killer_id
              v == kill_requests[r].victim_id
          IN kill_requests[r].status = "pending" =>
               /\ PendingOf(k, v) = {r}
               /\ createKillRequestId(k, v) = r)
  /\ [][\A token \in DOMAIN players :
          (PendingOf(token, players[token].target_id) # {} /\ Kill(token))
            => kill_requests' = kill_requests]_vars

\* a request is pending, its killer is alive in an active game and still has
\* the victim as target, the table has room for another row, and a further
\* submit by the killer is accepted and changes nothing
C12_Resubmitted ==
  \E r \in DOMAIN kill_requests :
    LET k == kill_requests[r].killer_id IN
      /\ kill_requests[r].status = "pending"
      /\ players[k].is_alive
      /\ players[k].target_id = kill_requests[r].victim_id
      /\ games[players[k].game_id].status = "active"
      /\ Len(kill_requests) < MaxReqs
      /\ ENABLED (Kill(k) /\ UNCHANGED vars)
      /\ ~ENABLED (Kill(k) /\ ~UNCHANGED vars)

\* ---------------------------------------------------------------- C13
\* the pending requests against victim v, whoever the killer
PendingAgainst(v) ==
  {r \in DOMAIN kill_requests :
     kill_requests[r].victim_id = v /\ kill_requests[r].status = "pending"}

\* C13: each player is the victim of at most one pending kill request.
C13_OnePendingPerVictim ==
  \A v \in DOMAIN players : Cardinality(PendingAgainst(v)) <= 1

\* ---------------------------------------------------------------- C14
\* C14: a game's status only moves waiting -> active -> finished, one step at
\* a time: never back, and never from waiting straight to finished.
C14_StatusMonotonic ==
  [][\A g \in DOMAIN games :
       \/ games'[g].status = games[g].status
       \/ games[g].status = "waiting" /\ games'[g].status = "active"
       \/ games[g].status = "active" /\ games'[g].status = "finished"]_vars

\* a game that went all the way: finished, with a confirmed request and one
\* survivor
C14_Finished ==
  \E g \in DOMAIN games :
    /\ games[g].status = "finished"
    /\ Cardinality(Alive(g)) = 1
    /\ \E r \in DOMAIN kill_requests : kill_requests[r].status = "confirmed"

\* ---------------------------------------------------------------- C15
\* C15: a kill request is created only by a submit of a living player of an
\* active game, against that player's current target, and as pending; a
\* submit with the token of nobody, of a dead player, of a player without
\* target or of a player of a game that is not active changes nothing; a
\* submit never changes a player or a game.
C15_SubmitValidated ==
  /\ [][Len(kill_requests') > Len(kill_requests) =>
          LET new == kill_requests'[Len(kill_requests) + 1] IN
            /\ kill_requests' = Append(kill_requests, new)
            /\ new.status = "pending"
            /\ new.killer_id \in DOMAIN players
            /\ players[new.killer_id].is_alive
            /\ players[new.killer_id].target_id = new.victim_id
            /\ games[players[new.killer_id].game_id].status = "active"
            /\ UNCHANGED <<games, players, tasks>>]_vars
  /\ [][\A token \in PlayerIds :
          Kill(token) =>
            /\ token \in DOMAIN players
            /\ players[token].is_alive
            /\ players[token].target_id # Null
            /\ games[players[token].game_id].status = "active"
            /\ Len(kill_requests') = Len(kill_requests) + 1]_vars

\* an active game in which the newest request is pending, from a living
\* killer against their target, while a submit by a dead player of the game
\* is possible and changes nothing
C15_Submitted ==
  /\ kill_requests # <<>>
  /\ LET new == kill_requests[Len(kill_requests)]
         g == players[new.killer_id].game_id
     IN /\ new.status = "pending"
        /\ players[new.killer_id].is_alive
        /\ players[new.killer_id].target_id = new.victim_id
        /\ games[g].status = "active"
        /\ Len(kill_requests) < MaxReqs
        /\ \E d \in getPlayersByGame(players, g) :
             /\ ~players[d].is_alive
             /\ ENABLED (Kill(d) /\ UNCHANGED vars)
             /\ ~ENABLED (Kill(d) /\ ~UNCHANGED vars)

\* ---------------------------------------------------------------- C16
\* the game that owns request r: the game of its killer and victim
OwningGame(r) == players[kill_requests[r].killer_id].game_id

\* C16: an approve or a reject presented with the admin credential of a game
\* other than the one that owns the request changes no request, player or
\* game.
C16_OwnAdminOnly ==
  [][\A token \in DOMAIN games, killId \in DOMAIN kill_requests :
       (/\ token # OwningGame(killId)
        /\ Approve(token, killId) \/ Reject(token, killId))
       => UNCHANGED <<kill_requests, players, games>>]_vars

\* ---------------------------------------------------------------- C17
\* C17: a confirm-by-victim changes state only when the caller is the player
\* the request names as victim and the request is pending, and then it
\* confirms the request and kills the caller; from any other player, or on a
\* request that is not pending, it changes nothing.
C17_VictimOnly ==
  [][\A token \in PlayerIds, killId \in ReqIds :
       ConfirmDeath(token, killId) =>
         /\ killId \in DOMAIN kill_requests
         /\ token \in DOMAIN players
         /\ kill_requests[killId].victim_id = token
         /\ kill_requests[killId].status = "pending"
         /\ kill_requests'[killId].status = "confirmed"
         /\ ~players'[token].is_alive]_vars

\* a pending request whose victim can confirm it with effect while the
\* confirm of another player of the game is possible and changes nothing
C17_OthersRefused ==
  \E r \in DOMAIN kill_requests :
    LET v == kill_requests[r].victim_id IN
      /\ kill_requests[r].status = "pending"
      /\ ENABLED (ConfirmDeath(v, r) /\ ~UNCHANGED vars)
      /\ \E q \in getPlayersByGame(players, players[v].game_id) \ {v} :
           /\ ENABLED (ConfirmDeath(q, r) /\ UNCHANGED vars)
           /\ ~ENABLED (ConfirmDeath(q, r) /\ ~UNCHANGED vars)

\* ---------------------------------------------------------------- C18
\* C18: resolving a request that is no longer pending (confirmed or rejected)
\* changes no player, request or game and sends no message, and a rejected
\* request stays rejected, so it never becomes confirmed.
C18_ResolveOnlyPending ==
  /\ [][\A killId \in DOMAIN kill_requests :
          (kill_requests[killId].status # "pending" /\ Resolve(killId))
            => UNCHANGED vars]_vars
  /\ [][\A r \in DOMAIN kill_requests :
          kill_requests[r].status = "rejected" => kill_requests'[r].status = "rejected"]_vars
  /\ [](\A killId \in DOMAIN kill_requests :
          kill_requests[killId].status # "pending" => resolveNotices(killId) = <<>>)

\* a rejected request and a confirmed one, neither of which an approve or a
\* confirm can change any more, while a pending one would send its messages
C18_Settled ==
  \E r, c, o \in DOMAIN kill_requests :
    /\ kill_requests[r].status = "rejected"
    /\ kill_requests[c].status = "confirmed"
    /\ kill_requests[o].status = "pending"
    /\ players[kill_requests[r].victim_id].is_alive
    /\ ~ENABLED (Resolve(r) /\ ~UNCHANGED vars)
    /\ ~ENABLED (Resolve(c) /\ ~UNCHANGED vars)
    /\ ENABLED (Resolve(o) /\ ~UNCHANGED vars)
    /\ resolveNotices(r) = <<>>
    /\ resolveNotices(c) = <<>>
    /\ Len(resolveNotices(o)) = 2

\* ---------------------------------------------------------------- C19
\* C19: an admin reject changes nothing but the status of the request it
\* names: every player (is_alive, target, kills, current task), every game
\* and every other request is the same after the reject as before it (a
\* reject that leaves the request as it was changes nothing at all).
C19_RejectTouchesOnlyStatus ==
  [][\A killId \in DOMAIN kill_requests :
       kill_requests'[killId] # kill_requests[killId] =>
         \A token \in DOMAIN games :
           Reject(token, killId) =>
             /\ UNCHANGED <<players, games, tasks>>
             /\ DOMAIN kill_requests' = DOMAIN kill_requests
             /\ \A r \in DOMAIN kill_requests :
                  /\ kill_requests'[r].killer_id = kill_requests[r].killer_id
                  /\ kill_requests'[r].victim_id = kill_requests[r].victim_id
                  /\ r # killId => kill_requests'[r].status = kill_requests[r].status]_vars

\* a request has been rejected in an active game: its victim is alive and
\* still the target of its killer, who has no kill, and another request of
\* the game is still pending
C19_Rejected ==
  \E r, o \in DOMAIN kill_requests :
    LET k == kill_requests[r].killer_id
        v == kill_requests[r].victim_id
    IN /\ kill_requests[r].status = "rejected"
       /\ kill_requests[o].status = "pending"
       /\ games[players[k].game_id].status = "active"
       /\ players[k].is_alive /\ players[k].kills = 0
       /\ players[v].is_alive /\ players[k].target_id = v
       /\ \A p \in getPlayersByGame(players, players[k].game_id) :
            players[p].is_alive /\ players[p].kills = 0

\* ---------------------------------------------------------------- C20
\* the preconditions of start: the credential is a game's, the game is
\* waiting and has at least two players
C20_MayStart(token) ==
  /\ token \in DOMAIN games
  /\ games[token].status = "waiting"
  /\ Cardinality(getPlayersByGame(players, token)) >= 2

\* C20: a start changes state only with a game's admin credential, the game
\* waiting and at least two players in it, and then the game becomes active
\* and every player of the game has a target in the game; a start with a
\* precondition failing changes no target, task or status.
C20_StartGuarded ==
  /\ [][\A token \in DOMAIN games :
          games'[token] # games[token] =>
            (Start(token) =>
               /\ C20_MayStart(token)
               /\ games'[token].status = "active"
               /\ \A g \in DOMAIN games \ {token} : games'[g] = games[g]
               /\ \A p \in getPlayersByGame(players', token) :
                    /\ players'[p].target_id \in getPlayersByGame(players', token)
                    /\ players'[p].is_alive = players[p].is_alive
                    /\ players'[p].kills = players[p].kills
               /\ \A p \in DOMAIN players :
                    players[p].game_id # token => players'[p] = players[p]
               /\ UNCHANGED <<tasks, kill_requests>>)]_vars
  /\ [](\A token \in GameIds :
          ~C20_MayStart(token) => ~ENABLED (Start(token) /\ ~UNCHANGED vars))

\* one game has been started, all its players hold a target and a second
\* start of it changes nothing, while the other game, with fewer than two
\* players, cannot be started
C20_StartedOnce ==
  \E g, w \in DOMAIN games :
    /\ games[g].status = "active"
    /\ Cardinality(getPlayersByGame(players, g)) >= 2
    /\ \A p \in getPlayersByGame(players, g) : players[p].target_id # Null
    /\ ~ENABLED (Start(g) /\ ~UNCHANGED vars)
    /\ games[w].status = "waiting"
    /\ Cardinality(getPlayersByGame(players, w)) = 1
    /\ players[CHOOSE p \in getPlayersByGame(players, w) : TRUE].target_id = Null
    /\ ~ENABLED (Start(w) /\ ~UNCHANGED vars)

\* ---------------------------------------------------------------- C21
\* nobody of game g has been eliminated: the targets are those of start
NobodyEliminated(g) == Alive(g) = getPlayersByGame(players, g)

\* C21: a step that adds a player adds it to a game that is waiting, also
\* while the start handler of the game is suspended between two of its sends;
\* so in a started game every player is in the ring start built (the ring is
\* still whole as long as nobody of the game has been eliminated).
C21_JoinOnlyWhileWaiting ==
  /\ [][Len(players') > Len(players) =>
          /\ Len(players') = Len(players) + 1
          /\ games[players'[Len(players')].game_id].status = "waiting"
          /\ games'[players'[Len(players')].game_id].status = "waiting"]_allVars
  /\ [](\A g \in DOMAIN games :
          (Started(g) /\ NobodyEliminated(g))
            => IsRing(players, getPlayersByGame(players, g)))

\* the start handler is suspended with sends still to come, there is room
\* for another player, and a join of that game arrives and changes nothing
C21_JoinDuringStart ==
  \E h \in inflight :
    LET g == players[h.awaiting.to].game_id IN
      /\ h.kind = "start"
      /\ h.rest # <<>>
      /\ games[g].status = "active"
      /\ Len(players) < SmallPlayers
      /\ ENABLED (AsyncJoin(g) /\ UNCHANGED allVars)
      /\ ~ENABLED (AsyncJoin(g) /\ ~UNCHANGED allVars)

\* ---------------------------------------------------------------- C22
\* C22: with the task pool of the game empty, start still succeeds and leaves
\* the current task of every player of the game unset, and every resolve of
\* a pending request still succeeds and leaves the killer's current task
\* unset.
C22_EmptyPool ==
  /\ [](\A g \in DOMAIN games :
          (C20_MayStart(g) /\ getTasksByGame(g) = {})
            => ENABLED (Start(g) /\ games'[g].status = "active"))
  /\ [][\A g \in DOMAIN games :
          (games'[g] # games[g] /\ getTasksByGame(g) = {} /\ Start(g)) =>
            /\ games'[g].status = "active"
            /\ \A p \in getPlayersByGame(players', g) :
                 /\ players'[p].current_task_id = Null
                 /\ players'[p].target_id # Null]_vars
  /\ [](\A r \in DOMAIN kill_requests :
          (kill_requests[r].status = "pending"
             /\ getTasksByGame(players[kill_requests[r].killer_id].game_id) = {})
            => ENABLED (Resolve(r) /\ kill_requests'[r].status = "confirmed"))
  /\ [][\A r \in DOMAIN kill_requests :
          (/\ kill_requests[r].status = "pending"
           /\ getTasksByGame(players[kill_requests[r].killer_id].game_id) = {}
           /\ Resolve(r)) =>
            /\ kill_requests'[r].status = "confirmed"
            /\ players'[kill_requests[r].killer_id].current_task_id = Null]_vars

\* in a game without tasks a request has been confirmed and nobody of the
\* game holds a task, while the other game has a task
C22_ResolvedWithoutTasks ==
  \E r \in DOMAIN kill_requests :
    LET g == players[kill_requests[r].killer_id].game_id IN
      /\ kill_requests[r].status = "confirmed"
      /\ getTasksByGame(g) = {}
      /\ tasks # <<>>
      /\ players[kill_requests[r].killer_id].kills = 1
      /\ \A p \in getPlayersByGame(players, g) : players[p].current_task_id = Null

\* ---------------------------------------------------------------- C23
\* the living players of the task's game whose current task is t
HoldersOf(t) ==
  {p \in getAlivePlayers(players, tasks[t].game_id) : players[p].current_task_id = t}

\* C23: in every reachable state each task of a game's pool is the current
\* task of at most one living player of that game.
C23_OneHolderPerTask ==
  \A t \in DOMAIN tasks : Cardinality(HoldersOf(t)) <= 1

\* ---------------------------------------------------------------- C24
\* the store holds the mutation the notice n reports: the kill request of a
\* submit; the started game and the target of a start; the resolved request,
\* the dead victim and the counted kill of a resolve
Committed(n) ==
  LET Reported(killer, victim, statuses) ==
        \E r \in DOMAIN kill_requests :
          /\ kill_requests[r].killer_id = killer
          /\ kill_requests[r].victim_id = victim
          /\ kill_requests[r].status \in statuses
  IN CASE n.kind = "killRequest" ->
            Reported(n.about, n.to, {"pending", "confirmed", "rejected"})
       [] n.kind = "gameStart" ->
            /\ Started(players[n.to].game_id)
            /\ n.about \in getPlayersByGame(players, players[n.to].game_id)
       [] n.kind = "eliminated" ->
            /\ Reported(n.about, n.to, {"confirmed", "rejected"})
            /\ ~players[n.to].is_alive
            /\ players[n.about].kills >= 1
       [] OTHER ->
            /\ \E v \in DOMAIN players : Reported(n.to, v, {"confirmed", "rejected"})
            /\ players[n.to].kills >= 1

\* C24: whenever a notification has been attempted the mutation of its
\* command is in the store, and the step in which a send ends, delivered or
\* not, changes no game, player, task or kill request.
C24_CommitBeforeNotify ==
  /\ [](\A h \in inflight : Committed(h.awaiting))
  /\ [][\A h \in inflight, ok \in BOOLEAN : Resume(h, ok) => UNCHANGED vars]_allVars

\* a submit handler and a resolve handler both await a send, and either send
\* may fail
C24_AwaitingSends ==
  \E h, k \in inflight :
    /\ h.kind = "kill" /\ h.awaiting.kind = "killRequest"
    /\ k.kind = "resolve" /\ k.awaiting.kind = "eliminated"
    /\ ENABLED Resume(h, FALSE)
    /\ ENABLED Resume(k, FALSE)

\* ---------------------------------------------------------------- C25
\* the messages of resolving request r, as a set
NoticesOf(r) == {resolveNotices(r)[i] : i \in DOMAIN resolveNotices(r)}

\* C25: when resolving a pending request leaves exactly one living player, the
\* resolve sends a winner notice to the killer and a game-over notice to
\* every other player of the game; when it leaves two or more alive, it sends
\* the killer a new-target notice naming the killer's new target.
C25_WinnerAndGameOver ==
  \A r \in DOMAIN kill_requests :
    kill_requests[r].status = "pending" =>
      LET killer == kill_requests[r].killer_id
          game == players[killer].game_id
          after == processKill(r, Null).players
          alive == getAlivePlayers(after, game)
      IN /\ Cardinality(alive) = 1 =>
              /\ [kind |-> "winner", to |-> killer, about |-> Null] \in NoticesOf(r)
              /\ \A p \in getPlayersByGame(players, game) \ {killer} :
                   [kind |-> "gameOver", to |-> p, about |-> killer] \in NoticesOf(r)
         /\ Cardinality(alive) >= 2 =>
              [kind |-> "newTarget", to |-> killer, about |-> after[killer].target_id]
                \in NoticesOf(r)

\* ---------------------------------------------------------------- C26
KillerNotices == {"newTarget", "winner"}

\* the handler h has attempted the elimination notice and not yet the
\* killer's
EliminationFirst(h) ==
  /\ h.awaiting.kind = "eliminated"
  /\ Len(h.rest) = 1
  /\ h.rest[1].kind \in KillerNotices
  /\ h.rest[1].to = h.awaiting.about

\* C26: every successful resolve, by confirm-by-victim or by admin approve,
\* attempts the elimination notice to the victim first; the notice to the
\* killer (new target or winner) is attempted only when that send has ended.
C26_EliminationNoticeFirst ==
  /\ [][\A killId \in DOMAIN kill_requests :
          (/\ Confirms(killId)
           /\ \/ \E token \in 1..SmallPlayers : AsyncConfirmDeath(token, killId)
              \/ \E token \in 1..SmallGames : AsyncApprove(token, killId))
            => \E h \in inflight' :
                 /\ h.kind = "resolve"
                 /\ h.awaiting.to = kill_requests[killId].victim_id
                 /\ h.awaiting.about = kill_requests[killId].killer_id
                 /\ EliminationFirst(h)]_allVars
  /\ [](\A h \in inflight :
          h.kind = "resolve" =>
            \/ EliminationFirst(h)
            \/ h.awaiting.kind \in KillerNotices /\ h.rest = <<>>)
  /\ [][\A h \in inflight \ inflight' :
          (h.kind = "resolve" /\ h.awaiting.kind = "eliminated")
            => \E k \in inflight' :
                 /\ k.kind = "resolve"
                 /\ k.awaiting = h.rest[1]
                 /\ k.rest = <<>>]_allVars

\* the elimination send of a resolve has ended and the handler awaits its
\* send to the killer
C26_KillerNoticeSecond ==
  \E h \in inflight :
    /\ h.kind = "resolve"
    /\ h.awaiting.kind \in KillerNotices
    /\ h.rest = <<>>
    /\ players[h.awaiting.to].kills >= 1

\* ---------------------------------------------------------------- C27
\* the players the start handler h has sent to last and has still to send to
Recipients(h) == <<h.awaiting.to>> \o [i \in DOMAIN h.rest |-> h.rest[i].to]

\* C27: the start handler sends one game-start notice to every player of the
\* game, one after the other in the order of the players' rows, and the
\* notice it attempts carries the target and the task that start gave the
\* player.
C27_StartNotices ==
  \A h \in inflight :
    h.kind = "start" =>
      LET array == playersArray(players, players[h.awaiting.to].game_id) IN
        /\ \E i \in DOMAIN array : Recipients(h) = SubSeq(array, i, Len(array))
        /\ h.awaiting.about \in getPlayersByGame(players, players[h.awaiting.to].game_id)
        /\ h.awaiting.task = h.built

\* ---------------------------------------------------------------- C28
\* writes that go with the confirmed status of request r are in the store:
\* the victim is dead, the killer has a kill for each of their confirmed
\* requests, and the game is finished if one player is left
Applied(r) ==
  LET killer == kill_requests[r].killer_id
      victim == kill_requests[r].victim_id
      game == players[killer].game_id
  IN /\ ~players[victim].is_alive
     /\ players[killer].kills >= Cardinality(ConfirmedBy(killer))
     /\ Cardinality(Alive(game)) = 1 => games[game].status = "finished"

\* processKill has written the confirmed status and has writes to come
MidResolve == running.op = "processKill" /\ running.pc # "status"

\* another command handler (or a page read, which the event loop serves the
\* same way) can start
CanObserve ==
  \/ ENABLED (\E gameId \in 1..SmallGames : StepJoin(gameId))
  \/ ENABLED (\E token \in 1..SmallPlayers : StepKill(token))
  \/ ENABLED (\E token \in 1..SmallGames, killId \in 1..SmallReqs : StepReject(token, killId))
  \/ ENABLED (\E token \in 1..SmallGames : BeginStart(token))
  \/ ENABLED (\E token \in 1..SmallPlayers, killId \in 1..SmallReqs :
                BeginConfirmDeath(token, killId))
  \/ ENABLED (\E token \in 1..SmallGames, killId \in 1..SmallReqs :
                BeginApprove(token, killId))

\* C28: between the first and the last write of a resolve no other handler
\* or page read can run, and whenever one can run every confirmed request
\* has its dead victim, its kill count and its win check in the store with
\* it: the writes of one resolve are one unit for every observer.
C28_ResolveIsOneUnit ==
  /\ MidResolve => ~CanObserve
  /\ CanObserve =>
       \A r \in DOMAIN kill_requests :
         kill_requests[r].status = "confirmed" => Applied(r)

\* processKill has confirmed the request and not yet killed the victim, and
\* nothing else can run
C28_Unobserved ==
  /\ MidResolve
  /\ kill_requests[running.killId].status = "confirmed"
  /\ players[kill_requests[running.killId].victim_id].is_alive
  /\ ~Applied(running.killId)
  /\ ~CanObserve

\* ---------------------------------------------------------------- C29
\* the rows of game g: built for every player, or for none
BuiltForAll(g) ==
  \A p \in getPlayersByGame(players, g) :
    /\ players[p].target_id # Null
    /\ getTasksByGame(g) # {} => players[p].current_task_id # Null

BuiltForNone(g) ==
  \A p \in getPlayersByGame(players, g) :
    /\ players[p].target_id = Null
    /\ players[p].current_task_id = Null

\* C29: whenever no section is running, also after the process has stopped
\* inside assignTargets, a game that has not become active has the targets
\* and tasks of build written for all of its players or for none.
C29_BuildAllOrNothing ==
  running = Idle =>
    \A g \in DOMAIN games :
      games[g].status = "waiting" => BuiltForAll(g) \/ BuiltForNone(g)

\* ---------------------------------------------------------------- C30
\* another request against the victim of r has been confirmed
OtherResolved(r) ==
  \E o \in DOMAIN kill_requests \ {r} :
    /\ kill_requests[o].victim_id = kill_requests[r].victim_id
    /\ kill_requests[o].status = "confirmed"

\* C30: once one of several pending requests against a victim has been
\* resolved, resolving another of them changes no player.
C30_OthersAreNoOps ==
  [][\A r \in DOMAIN kill_requests :
       (kill_requests[r].status = "pending" /\ OtherResolved(r) /\ Resolve(r))
         => UNCHANGED players]_vars


\* ---------------------------------------------------------------- C31
\* the command that confirms or rejects request r by naming it: the confirm
\* of its victim, an admin approve or an admin reject
Settles(r) ==
  \/ ConfirmDeath(kill_requests[r].victim_id, r)
  \/ \E token \in DOMAIN games : Approve(token, r)
  \/ \E token \in DOMAIN games : Reject(token, r)

\* C31: a pending request leaves pending only in the step of a confirm by its
\* victim, an admin approve or an admin reject that names it; every other
\* step (a submit, the resolve of another request, with the elimination of
\* its killer or of its victim, the change of its killer's target or the end
\* of the game that come with it, a start, a join) leaves it pending, and no
\* step removes it or changes its killer or victim.
C31_PendingUntilSettled ==
  [][\A r \in DOMAIN kill_requests :
       kill_requests[r].status = "pending" =>
         /\ r \in DOMAIN kill_requests'
         /\ kill_requests'[r].killer_id = kill_requests[r].killer_id
         /\ kill_requests'[r].victim_id = kill_requests[r].victim_id
         /\ kill_requests'[r].status # "pending" => Settles(r)]_vars

\* a request is still pending though its killer and its victim have both
\* been eliminated by other requests and its game is finished
C31_OutlivesItsPlayers ==
  \E r \in DOMAIN kill_requests :
    /\ kill_requests[r].status = "pending"
    /\ ~players[kill_requests[r].killer_id].is_alive
    /\ ~players[kill_requests[r].victim_id].is_alive
    /\ players[kill_requests[r].killer_id].target_id # kill_requests[r].victim_id
    /\ games[OwningGame(r)].status = "finished"

\* ---------------------------------------------------------------- C32
\* the four mutable fields of player p are the same after the step
KeepsFields(p) ==
  /\ players'[p].is_alive = players[p].is_alive
  /\ players'[p].target_id = players[p].target_id
  /\ players'[p].kills = players[p].kills
  /\ players'[p].current_task_id = players[p].current_task_id

\* C32: is_alive, target, kills and current task of a player change only in
\* the step that starts the player's game or in a step that confirms a kill
\* request (elimination processing); a join, a submit and an admin reject
\* leave the four fields of every player as they were, and no step removes a
\* player or moves one to another game.
C32_PlayerFieldsFrame ==
  [][players' # players =>
       /\ \A p \in DOMAIN players :
            /\ p \in DOMAIN players'
            /\ players'[p].game_id = players[p].game_id
            /\ ~KeepsFields(p) =>
                 \/ Starts(players[p].game_id)
                 \/ \E r \in DOMAIN kill_requests : Confirms(r)
       /\ (\E p \in DOMAIN players : ~KeepsFields(p)) =>
            /\ ~\E gameId \in GameIds : Join(gameId)
            /\ ~\E token \in PlayerIds : Kill(token)
            /\ ~\E token \in GameIds, killId \in ReqIds : Reject(token, killId)]_vars

\* in an active game with a rejected request everybody is alive without a
\* kill and on a target, while a submit, a reject and a join (of the other
\* game) can each change the store
C32_FrameCommandsAct ==
  \E g, w \in DOMAIN games :
    /\ games[g].status = "active"
    /\ games[w].status = "waiting"
    /\ \E r \in DOMAIN kill_requests :
         kill_requests[r].status = "rejected" /\ OwningGame(r) = g
    /\ \A p \in getPlayersByGame(players, g) :
         players[p].is_alive /\ players[p].kills = 0 /\ players[p].target_id # Null
    /\ getPlayersByGame(players, w) # {}
    /\ ENABLED (Join(w) /\ ~UNCHANGED vars)
    /\ ENABLED (\E token \in getPlayersByGame(players, g) : Kill(token) /\ ~UNCHANGED vars)
    /\ ENABLED (\E killId \in DOMAIN kill_requests : Reject(g, killId) /\ ~UNCHANGED vars)

\* ---------------------------------------------------------------- C33
\* the elimination request r asks for is still the one to apply: its killer
\* and its victim are alive and the killer's target is the victim
StillValid(r) ==
  LET killer == kill_requests[r].killer_id
      victim == kill_requests[r].victim_id
  IN /\ players[killer].is_alive
     /\ players[victim].is_alive
     /\ players[killer].target_id = victim

\* C33: a step that confirms a pending request whose killer has been
\* eliminated or re-targeted since, or whose victim is dead already, changes
\* no player's target, is_alive or kills.
C33_StaleRequestsApplyNothing ==
  [][\A r \in DOMAIN kill_requests :
       (Confirms(r) /\ ~StillValid(r)) =>
         \A p \in DOMAIN players :
           /\ players'[p].target_id = players[p].target_id
           /\ players'[p].is_alive = players[p].is_alive
           /\ players'[p].kills = players[p].kills]_vars

\* ---------------------------------------------------------------- C34
\* the sum of the kills of the players in S
RECURSIVE KillsOf(_)
KillsOf(S) ==
  IF S = {} THEN 0
  ELSE LET p == CHOOSE q \in S : TRUE IN players[p].kills + KillsOf(S \ {p})

Dead(g) == getPlayersByGame(players, g) \ Alive(g)

\* C34: in every reachable state the kills of the players of a game add up to
\* the number of players of the game that are not alive.
C34_KillsCountTheDead ==
  \A g \in DOMAIN games :
    KillsOf(getPlayersByGame(players, g)) = Cardinality(Dead(g))

\* ---------------------------------------------------------------- C35
\* C35: once a game is finished no step changes is_alive, target, kills or
\* current task of a player of the game, so its sole survivor stays alive.
C35_FinishedIsFrozen ==
  [][\A g \in DOMAIN games :
       games[g].status = "finished" =>
         \A p \in getPlayersByGame(players, g) : KeepsFields(p)]_vars

\* ---------------------------------------------------------------- C36
\* C36: whenever resolving a request sends a winner notice, the player it
\* goes to is, in the store processKill leaves, the only living player of
\* the game and the game is finished.
C36_WinnerIsSoleSurvivor ==
  \A r \in DOMAIN kill_requests :
    \A n \in NoticesOf(r) :
      n.kind = "winner" =>
        LET result == processKill(r, Null)
            game == OwningGame(r)
        IN /\ getAlivePlayers(result.players, game) = {n.to}
           /\ result.games[game].status = "finished"

\* ---------------------------------------------------------------- C37
\* the bound on kill_requests refuses no submit: when the table is full,
\* every player who may submit has their request pending already
NoSubmitRefused ==
  Len(kill_requests) >= LiveReqs =>
    \A token \in DOMAIN players :
      (/\ players[token].is_alive
       /\ players[token].target_id # Null
       /\ games[players[token].game_id].status = "active")
        => existingKillRequest(token, players[token].target_id) # {}

StartHandlers(H, g) ==
  {h \in H : h.kind = "start" /\ players[h.awaiting.to].game_id = g}

\* C38: once a game has been started it is never waiting again and a start
\* request for it changes nothing and sends nothing, also while the handler
\* of the first start is suspended at its sends; so the targets and current
\* tasks of its players change only with the confirmation of a kill request.
C38_StartOnlyOnce ==
  [][\A g \in DOMAIN games :
       Started(g) =>
         /\ games'[g].status # "waiting"
         /\ AsyncStart(g) => UNCHANGED allVars
         /\ StartHandlers(inflight', g) \ inflight # {}
              => \E h \in StartHandlers(inflight, g) \ inflight' : h.rest # <<>>
         /\ (\A r \in DOMAIN kill_requests : ~Confirms(r)) =>
              \A p \in getPlayersByGame(players, g) :
                /\ players'[p].target_id = players[p].target_id
                /\ players'[p].current_task_id = players[p].current_task_id]_allVars

\* the handler of the first start is suspended with sends to come and has
\* room beside it, and a second start of the game is answered and changes
\* nothing
C38_SecondStartDuringFirst ==
  \E h \in inflight :
    LET g == players[h.awaiting.to].game_id IN
      /\ h.kind = "start"
      /\ h.rest # <<>>
      /\ Cardinality(inflight) < MaxInflight
      /\ Cardinality(getPlayersByGame(players, g)) >= 2
      /\ \A p \in getPlayersByGame(players, g) : players[p].target_id # Null
      /\ ENABLED (AsyncStart(g) /\ UNCHANGED allVars)
      /\ ~ENABLED (AsyncStart(g) /\ ~UNCHANGED allVars)

\* ---------------------------------------------------------------- C39
\* every kill so far was the kill of a living player by a living player: the
\* dead have no target and the kills of a game count its dead
CleanlyPlayed ==
  /\ \A p \in DOMAIN players : ~players[p].is_alive => players[p].target_id = Null
  /\ \A g \in DOMAIN games :
       KillsOf(getPlayersByGame(players, g)) = Cardinality(Dead(g))

\* C39: a step in which a handler goes on to attempt a new-target notice
\* finds the player the notice goes to alive, in a game in which no stale
\* request has been applied.
C39_NoNewTargetForTheDead ==
  [][\A h \in inflight' \ inflight :
       (h.awaiting.kind = "newTarget" /\ CleanlyPlayed)
         => players'[h.awaiting.to].is_alive]_allVars


\* ---------------------------------------------------------------- C40
\* request r has been rejected and its claim can be made again: its killer is
\* alive in an active game, still has the victim as target and has no
\* pending request on them, and the table has room
Resubmittable(r) ==
  LET k == kill_requests[r].killer_id
      v == kill_requests[r].victim_id
  IN /\ kill_requests[r].status = "rejected"
     /\ players[k].is_alive
     /\ players[k].target_id = v
     /\ games[players[k].game_id].status = "active"
     /\ PendingOf(k, v) = {}
     /\ Len(kill_requests) < MaxReqs

\* C40: after a request of (killer, victim) has been rejected, a submit by
\* the killer, alive and still on that victim, is accepted and adds a new
\* pending request of the pair under a new id, and the rejected request stays
\* as it is; no later submit changes a rejected request.
C40_RejectedCanResubmit ==
  /\ [](\A r \in DOMAIN kill_requests :
          Resubmittable(r) =>
            /\ createKillRequestId(kill_requests[r].killer_id,
                                   kill_requests[r].victim_id) = Len(kill_requests) + 1
            /\ ENABLED (Kill(kill_requests[r].killer_id)
                          /\ Len(kill_requests') = Len(kill_requests) + 1))
  /\ [][\A r \in DOMAIN kill_requests :
          (Resubmittable(r) /\ Kill(kill_requests[r].killer_id)) =>
            /\ kill_requests' =
                 Append(kill_requests,
                        NewKillRequest(kill_requests[r].killer_id,
                                       kill_requests[r].victim_id))
            /\ kill_requests'[r] = kill_requests[r]]_vars
  /\ [][\A r \in DOMAIN kill_requests :
          (kill_requests[r].status = "rejected" /\ kill_requests'[r] # kill_requests[r])
            => ~\E token \in PlayerIds : Kill(token)]_vars

\* a rejected request and a later, pending request of the same killer on the
\* same victim, the killer's target
C40_Resubmitted ==
  \E r, n \in DOMAIN kill_requests :
    /\ r < n
    /\ kill_requests[r].status = "rejected"
    /\ kill_requests[n].status = "pending"
    /\ kill_requests[n].killer_id = kill_requests[r].killer_id
    /\ kill_requests[n].victim_id = kill_requests[r].victim_id
    /\ players[kill_requests[n].killer_id].is_alive
    /\ players[kill_requests[n].victim_id].is_alive
    /\ players[kill_requests[n].killer_id].target_id = kill_requests[n].victim_id
====
